---- MODULE Spec2Model ----
(***************************************************************************)
(* Resume builder (src/src/App.tsx): the form, the scoring rubric, the     *)
(* summary generator and the PDF exporter of the ResumePreview component,  *)
(* as a state machine.  Strings are TLA+ strings; Len, SubSeq and \o act   *)
(* on them character by character.                                         *)
(***************************************************************************)
EXTENDS Integers, Sequences, FiniteSets, TLC

VARIABLES
  route,          \* the router's current path: "/", "/form" or "/preview"
  crashed,        \* a render threw: React has unmounted the whole tree
  resumeData,     \* App's useState<ResumeData | null>
  projectFields,  \* useFieldArray "projects": the ids of the rows of the form
  activityFields, \* useFieldArray "activities": the ids of the rows of the form
  formErrors,     \* formState.errors: the paths the resolver rejected
  isGenerating,   \* ResumePreview state: export in progress
  aiSummary,      \* ResumePreview state: the summary text
  loadingAi,      \* ResumePreview state: loading placeholder shown
  apiKey,         \* process.env.GEMINI_API_KEY, fixed for the session
  summaryCalls,   \* generateContent requests in flight
  netCalls,       \* number of generateContent requests issued so far
  exportRuns,     \* downloadPDF runs between html2canvas' start and the finally block
  exportsStarted, \* number of downloadPDF runs started so far
  saved,          \* the files pdf.save has produced, in order
  display,        \* { score, feedback } as rendered by ResumePreview
  entered,        \* the form values handleSubmit validated in the last step, if it was a submit
  resolved,       \* what the request of the mounted preview settled with in the last step, if one did
  lastOp          \* the handler or continuation that ran last, with its outcome

vars == <<route, crashed, resumeData, projectFields, activityFields, formErrors,
          isGenerating, aiSummary, loadingAi, apiKey, summaryCalls, netCalls,
          exportRuns, exportsStarted, saved, display, entered, resolved, lastOp>>

(***************************************************************************)
(* Bounds                                                                  *)
(***************************************************************************)
MaxRows == 2        \* rows per field array in the form
MaxCalls == 2       \* generateContent requests per session
MaxExports == 2     \* downloadPDF runs per session
MaxSkills == 9      \* entries of the technicalSkills inputs of the scoring check

(***************************************************************************)
(* String helpers: the JavaScript string methods the code calls            *)
(***************************************************************************)
Char(s, i) == SubSeq(s, i, i)

Whitespace == {" ", "\t", "\n", "\r"}

Lower == {"a","b","c","d","e","f","g","h","i","j","k","l","m",
          "n","o","p","q","r","s","t","u","v","w","x","y","z"}
Upper == {"A","B","C","D","E","F","G","H","I","J","K","L","M",
          "N","O","P","Q","R","S","T","U","V","W","X","Y","Z"}
Letters == Lower \cup Upper
Digits == {"0","1","2","3","4","5","6","7","8","9"}
AlphaNum == Letters \cup Digits

\* a value is truthy in a JavaScript condition: a string when it is non-empty
Truthy(s) == s # ""

\* String.prototype.includes
includes(s, m) ==
  \E i \in 1..(Len(s) - Len(m) + 1) : SubSeq(s, i, i + Len(m) - 1) = m

RECURSIVE trimStart(_)
trimStart(s) ==
  IF Len(s) > 0 /\ Char(s, 1) \in Whitespace
  THEN trimStart(SubSeq(s, 2, Len(s)))
  ELSE s

RECURSIVE trimEnd(_)
trimEnd(s) ==
  IF Len(s) > 0 /\ Char(s, Len(s)) \in Whitespace
  THEN trimEnd(SubSeq(s, 1, Len(s) - 1))
  ELSE s

\* String.prototype.trim
trim(s) == trimEnd(trimStart(s))

RECURSIVE splitFrom(_, _, _, _, _)
splitFrom(s, sep, i, cur, acc) ==
  IF i > Len(s) THEN Append(acc, cur)
  ELSE IF Char(s, i) = sep
       THEN splitFrom(s, sep, i + 1, "", Append(acc, cur))
       ELSE splitFrom(s, sep, i + 1, cur \o Char(s, i), acc)

\* String.prototype.split with a one-character separator: "" gives <<"">>
split(s, sep) == splitFrom(s, sep, 1, "", <<>>)

RECURSIVE replaceWsFrom(_, _, _, _)
replaceWsFrom(s, i, inRun, acc) ==
  IF i > Len(s) THEN acc
  ELSE IF Char(s, i) \in Whitespace
       THEN replaceWsFrom(s, i + 1, TRUE, IF inRun THEN acc ELSE acc \o "_")
       ELSE replaceWsFrom(s, i + 1, FALSE, acc \o Char(s, i))

\* name.replace(/\s+/g, '_'): every maximal run of whitespace becomes one "_"
replaceWhitespace(s) == replaceWsFrom(s, 1, FALSE, "")

(***************************************************************************)
(* Constants of the code                                                   *)
(***************************************************************************)
NoData == [null |-> TRUE]   \* resumeData before any submit
NoResponse == [none |-> TRUE]  \* no request settled in the last step
NoKey == "<unset>"          \* process.env.GEMINI_API_KEY is not defined
Placeholder == "MY_GEMINI_API_KEY"

GenericFallback == "Passionate student eager to contribute to innovative projects."
Marker == "(Note: Gemini API key is missing"
\* a missing-credential text that does not carry the marker the score looks for
SentinelText_unmarked ==
  "Passionate student eager to contribute to innovative projects. (Note: API key is missing or invalid in environment secrets)"

SentinelText ==
  "Passionate student eager to contribute to innovative projects. (Note: Gemini API key is missing or invalid in environment secrets)"

FbContact == "Complete your personal contact information."
FbEducation == "Add your college and degree details."
FbSkills8 == "Try adding at least 8 technical skills for better visibility."
FbSkills5 == "Your skills section is a bit thin. Aim for 5-8 key skills."
FbSkills0 == "Add more technical skills to showcase your expertise."
FbProjectDesc ==
  "Expand your project descriptions to be more detailed (aim for 40+ characters)."
FbProjectNone == "Add at least one project to demonstrate practical experience."
FbActivities == "Include extracurricular activities or club roles."
FbSummary == "Generate an AI LinkedIn summary to boost your profile score."

(***************************************************************************)
(* resumeSchema: the zod checks of the form                                *)
(***************************************************************************)
\* z.string().email(): one "@", a local part of word characters that neither
\* starts nor ends with a dot, no "..", dot-separated domain labels and a
\* final label of at least two letters
LocalChars == AlphaNum \cup {"_", "'", "+", "-", "."}
LabelChars == AlphaNum \cup {"-"}

IsEmail(s) ==
  LET parts == split(s, "@") IN
  /\ Len(parts) = 2
  /\ LET local == parts[1]
         labels == split(parts[2], ".")
     IN /\ Len(local) > 0
        /\ \A i \in 1..Len(local) : Char(local, i) \in LocalChars
        /\ Char(local, 1) # "."
        /\ Char(local, Len(local)) # "."
        /\ ~ includes(s, "..")
        /\ Len(labels) >= 2
        /\ \A k \in 1..Len(labels) :
             /\ Len(labels[k]) > 0
             /\ Char(labels[k], 1) \in AlphaNum
             /\ \A i \in 1..Len(labels[k]) : Char(labels[k], i) \in LabelChars
        /\ LET tld == labels[Len(labels)]
           IN /\ Len(tld) >= 2
              /\ \A i \in 1..Len(tld) : Char(tld, i) \in Letters

\* z.string().url(): new URL(s) does not throw.  An absolute URL has a scheme
\* (a letter, then letters, digits, "+", "-", ".") before its first ":", and
\* the schemes with an authority need a non-empty host without whitespace
SchemeChars == AlphaNum \cup {"+", "-", "."}
SpecialSchemes == {"http", "https", "ftp", "ws", "wss"}

RECURSIVE dropSlashes(_)
dropSlashes(s) ==
  IF Len(s) > 0 /\ Char(s, 1) \in {"/", "\\"}
  THEN dropSlashes(SubSeq(s, 2, Len(s)))
  ELSE s

IsUrl(s) ==
  LET t == trim(s)
      parts == split(t, ":")
      scheme == parts[1]
  IN /\ Len(parts) >= 2
     /\ Len(scheme) > 0
     /\ Char(scheme, 1) \in Letters
     /\ \A i \in 1..Len(scheme) : Char(scheme, i) \in SchemeChars
     /\ scheme \in SpecialSchemes =>
          LET rest == dropSlashes(SubSeq(t, Len(scheme) + 2, Len(t)))
              host == split(rest, "/")[1]
          IN /\ Len(host) > 0
             /\ \A i \in 1..Len(host) : Char(host, i) \notin Whitespace

\* z.string().min(n)
MinLen(s, n) == Len(s) >= n

\* one zod issue at path unless the check passed
Issue(path, ok) == IF ok THEN {} ELSE {path}

\* the project schema without the check of the description
projectSchema_noDescription(v, i) ==
       Issue(<<"projects", i, "title">>, MinLen(v.projects[i].title, 2))
  \cup Issue(<<"projects", i, "technologies">>, MinLen(v.projects[i].technologies, 2))

\* the object schema of one entry of projects
projectSchema(v, i) ==
       Issue(<<"projects", i, "title">>, MinLen(v.projects[i].title, 2))
  \cup Issue(<<"projects", i, "description">>, MinLen(v.projects[i].description, 10))
  \cup Issue(<<"projects", i, "technologies">>, MinLen(v.projects[i].technologies, 2))

\* the object schema of one entry of activities
activitySchema(v, i) ==
       Issue(<<"activities", i, "role">>, MinLen(v.activities[i].role, 2))
  \cup Issue(<<"activities", i, "achievements">>, MinLen(v.activities[i].achievements, 5))

\* z.string().url(...).or(z.string().length(0))
urlOrEmpty(s) == IsUrl(s) \/ Len(s) = 0

\* the paths of the issues zod reports for the entered values v
resumeSchema(v) ==
       Issue(<<"name">>, MinLen(v.name, 2))
  \cup Issue(<<"email">>, IsEmail(v.email))
  \cup Issue(<<"phone">>, MinLen(v.phone, 10))
  \cup Issue(<<"linkedin">>, urlOrEmpty(v.linkedin))
  \cup Issue(<<"github">>, urlOrEmpty(v.github))
  \cup Issue(<<"location">>, MinLen(v.location, 2))
  \cup Issue(<<"college">>, MinLen(v.college, 2))
  \cup Issue(<<"degree">>, MinLen(v.degree, 2))
  \cup Issue(<<"year">>, MinLen(v.year, 4))
  \cup Issue(<<"technicalSkills">>, MinLen(v.technicalSkills, 2))
  \cup Issue(<<"softSkills">>, MinLen(v.softSkills, 2))
  \cup UNION {projectSchema(v, i) : i \in 1..Len(v.projects)}
  \cup Issue(<<"projects">>, Len(v.projects) >= 1)
  \cup UNION {activitySchema(v, i) : i \in 1..Len(v.activities)}
  \cup Issue(<<"activities">>, Len(v.activities) >= 1)

(***************************************************************************)
(* calculateResumeScore                                                    *)
(***************************************************************************)
\* every() where the code calls some()
hasLongDesc_every(projects) ==
  \A i \in 1..Len(projects) : Len(projects[i].description) > 40

\* Array.prototype.some over the project descriptions
hasLongDesc(projects) ==
  \E i \in 1..Len(projects) : Len(projects[i].description) > 40

\* the entries counted without the filter on blank ones
skillsCount_unfiltered(technicalSkills) == Len(split(technicalSkills, ","))

\* data.technicalSkills.split(',').filter(s => s.trim().length > 0).length
skillsCount(technicalSkills) ==
  Len(SelectSeq(split(technicalSkills, ","), LAMBDA e : Len(trim(e)) > 0))

\* summary && !summary.includes("(Note: Gemini API key is missing")
summaryCounts(summary) == Truthy(summary) /\ ~ includes(summary, Marker)

\* Personal Details (10 points)
contactBlock(r, data) ==
  IF Truthy(data.name) /\ Truthy(data.email) /\ Truthy(data.phone)
  THEN [r EXCEPT !.score = @ + 10]
  ELSE [r EXCEPT !.feedback = Append(@, FbContact)]

\* Education (15 points)
educationBlock(r, data) ==
  IF Truthy(data.college) /\ Truthy(data.degree)
  THEN [r EXCEPT !.score = @ + 15]
  ELSE [r EXCEPT !.feedback = Append(@, FbEducation)]

\* Skills (20 points)
skillsBlock(r, data) ==
  LET n == skillsCount(data.technicalSkills)
  IN IF n >= 8 THEN [r EXCEPT !.score = @ + 20]
     ELSE IF n >= 5
          THEN [r EXCEPT !.score = @ + 10, !.feedback = Append(@, FbSkills8)]
     ELSE IF n >= 3
          THEN [r EXCEPT !.score = @ + 5, !.feedback = Append(@, FbSkills5)]
     ELSE [r EXCEPT !.feedback = Append(@, FbSkills0)]

\* the projects block without the suggestion for short descriptions
projectsBlock_silent(r, data) ==
  IF Len(data.projects) > 0
  THEN IF hasLongDesc(data.projects)
       THEN [r EXCEPT !.score = @ + 10 + 15]
       ELSE [r EXCEPT !.score = @ + 10]
  ELSE [r EXCEPT !.feedback = Append(@, FbProjectNone)]

\* Projects (25 points)
projectsBlock(r, data) ==
  IF Len(data.projects) > 0
  THEN IF hasLongDesc(data.projects)
       THEN [r EXCEPT !.score = @ + 10 + 15]
       ELSE [r EXCEPT !.score = @ + 10, !.feedback = Append(@, FbProjectDesc)]
  ELSE [r EXCEPT !.feedback = Append(@, FbProjectNone)]

\* Activities (10 points)
activitiesBlock(r, data) ==
  IF Len(data.activities) > 0
  THEN [r EXCEPT !.score = @ + 10]
  ELSE [r EXCEPT !.feedback = Append(@, FbActivities)]

\* LinkedIn About (20 points)
summaryBlock(r, summary) ==
  IF summaryCounts(summary)
  THEN [r EXCEPT !.score = @ + 20]
  ELSE [r EXCEPT !.feedback = Append(@, FbSummary)]

\* the rubric: score and feedback accumulate block by block, in the code's order
calculateResumeScore(data, summary) ==
  LET r0 == [score |-> 0, feedback |-> <<>>]
      r1 == contactBlock(r0, data)
      r2 == educationBlock(r1, data)
      r3 == skillsBlock(r2, data)
      r4 == projectsBlock(r3, data)
      r5 == activitiesBlock(r4, data)
  IN summaryBlock(r5, summary)

(***************************************************************************)
(* Inputs: what a user can enter in the form                               *)
(***************************************************************************)
RECURSIVE Rep(_, _)
Rep(c, n) == IF n = 0 THEN "" ELSE c \o Rep(c, n - 1)

ProjLong == [title |-> "Compiler", description |-> Rep("d", 41), technologies |-> "Rust"]
ProjShort == [title |-> "Blog", description |-> Rep("d", 40), technologies |-> "JS"]
ActivityVal == [role |-> "Chess club", achievements |-> "Won regionals"]

Jane(p, a) ==
  [name |-> "Jane Q. Doe", email |-> "jane@uni.edu", phone |-> "5551234567",
   linkedin |-> "", github |-> "https://github.com/jane", location |-> "Pune",
   college |-> "MIT", degree |-> "BSc", year |-> "2027", cgpa |-> "",
   technicalSkills |-> "a,b,c,d,e,f,g,h", softSkills |-> "teamwork",
   projects |-> [i \in 1..p |-> ProjLong],
   activities |-> [i \in 1..a |-> ActivityVal]]

Bob(p, a) ==
  [name |-> "Bob  Ray", email |-> "bob.ray@mail.example.org",
   phone |-> "+1 555 000 1111", linkedin |-> "https://linkedin.com/in/bob",
   github |-> "", location |-> "NY", college |-> "State U", degree |-> "BA",
   year |-> "2026", cgpa |-> "3.5", technicalSkills |-> "go, rust,, ",
   softSkills |-> "ok",
   projects |-> [i \in 1..p |-> ProjShort],
   activities |-> [i \in 1..a |-> ActivityVal]]

\* one field of a valid entry replaced by a value the schema rejects
BadField(v) ==
  { [v EXCEPT !.name = "J"], [v EXCEPT !.email = "jane.uni.edu"],
    [v EXCEPT !.email = ""], [v EXCEPT !.email = "a@b"],
    [v EXCEPT !.phone = "12345"],
    [v EXCEPT !.linkedin = "linkedin.com/in/jane"],
    [v EXCEPT !.github = "not a url"], [v EXCEPT !.github = "https://"],
    [v EXCEPT !.location = ""], [v EXCEPT !.college = "M"],
    [v EXCEPT !.degree = ""], [v EXCEPT !.year = "27"],
    [v EXCEPT !.technicalSkills = "c"], [v EXCEPT !.softSkills = ""] }
  \cup { [v EXCEPT !.projects[i].title = "T"] : i \in 1..Len(v.projects) }
  \cup { [v EXCEPT !.projects[i].description = "too short"] : i \in 1..Len(v.projects) }
  \cup { [v EXCEPT !.projects[i].technologies = ""] : i \in 1..Len(v.projects) }
  \cup { [v EXCEPT !.activities[i].role = "R"] : i \in 1..Len(v.activities) }
  \cup { [v EXCEPT !.activities[i].achievements = "won"] : i \in 1..Len(v.activities) }

\* the values the form can hold at submit with p project rows and a activity rows
EnteredValues(p, a) ==
  {Jane(p, a)} \cup BadField(Jane(p, a))
  \cup { [Jane(p, a) EXCEPT !.email = "", !.github = "github", !.phone = ""] }

\* the entries the sessions of the whole application submit
SessionValues(p, a) ==
  {Jane(p, a), Bob(p, a), [Jane(p, a) EXCEPT !.email = "jane.uni.edu"]}

\* the outcomes of a generateContent request: response.text, or a rejection
\* (the service is free to return any text, one that holds the marker included)
ResponseTexts ==
  { "", "Driven first-year student who builds compilers.",
    "Builder of tools. (Note: Gemini API key is missing from my resume)" }

ApiKeys == {NoKey, "", Placeholder, "undefined", "AIzaSy-real-key"}

(***************************************************************************)
(* Rendering                                                               *)
(***************************************************************************)
NoDisplay == [shown |-> FALSE, score |-> 0, feedback |-> <<>>]

\* ResumePreview's render: const { score, feedback } = calculateResumeScore(data, aiSummary)
Rendered(data, summary) ==
  LET r == calculateResumeScore(data, summary)
  IN [shown |-> TRUE, score |-> r.score, feedback |-> r.feedback]

\* ResumePreview calls calculateResumeScore(data, aiSummary) before it tests
\* !data: with data null the first block reads data.name and throws a TypeError
RenderThrows(data) == data = NoData

\* a render that keeps the score computed when the preview mounted
Render_cached ==
  display' = IF route' = "/preview" /\ ~ crashed' /\ resumeData' # NoData
             THEN IF route = "/preview" /\ display.shown
                  THEN display
                  ELSE Rendered(resumeData', aiSummary')
             ELSE NoDisplay

\* every state change re-renders; the score panel exists on /preview only
Render ==
  display' = IF route' = "/preview" /\ ~ crashed' /\ resumeData' # NoData
             THEN Rendered(resumeData', aiSummary')
             ELSE NoDisplay

\* a component that unmounted ignores the state updates of its pending continuations
Detach(runs) == { [r EXCEPT !.live = FALSE] : r \in runs }

\* useForm's defaultValues: one empty project row and one empty activity row
FormMounted ==
  /\ projectFields' = <<1>>
  /\ activityFields' = <<1>>
  /\ formErrors' = {}

\* the useState initial values of ResumePreview, also what is left after it unmounts
PreviewReset ==
  /\ isGenerating' = FALSE
  /\ aiSummary' = ""
  /\ loadingAi' = FALSE

(***************************************************************************)
(* generateSummary                                                         *)
(***************************************************************************)
\* the credential test without the comparison with "undefined"
CredentialMissing_noUndefined(key) ==
  key = NoKey \/ key = "" \/ key = Placeholder

\* !apiKey || apiKey === "MY_GEMINI_API_KEY" || apiKey === "undefined"
CredentialMissing(key) ==
  key = NoKey \/ key = "" \/ key = Placeholder \/ key = "undefined"

\* a missing-credential exit that returns with the loading flag still set
GenerateStart_stuck(current) ==
  IF CredentialMissing(apiKey)
  THEN /\ aiSummary' = SentinelText
       /\ loadingAi' = TRUE
       /\ UNCHANGED <<summaryCalls, netCalls>>
  ELSE /\ netCalls < MaxCalls
       /\ aiSummary' = current
       /\ loadingAi' = TRUE
       /\ summaryCalls' = summaryCalls \cup {[id |-> netCalls + 1, live |-> TRUE]}
       /\ netCalls' = netCalls + 1

\* generateSummary up to its first await, started with the summary text current
GenerateStart(current) ==
  IF CredentialMissing(apiKey)
  THEN /\ aiSummary' = SentinelText
       /\ loadingAi' = FALSE
       /\ UNCHANGED <<summaryCalls, netCalls>>
  ELSE /\ netCalls < MaxCalls
       /\ aiSummary' = current
       /\ loadingAi' = TRUE
       /\ summaryCalls' = summaryCalls \cup {[id |-> netCalls + 1, live |-> TRUE]}
       /\ netCalls' = netCalls + 1

\* the "Regenerate AI Summary" button
generateSummary ==
  /\ route = "/preview" /\ ~ crashed
  /\ GenerateStart(aiSummary)
  /\ lastOp' = IF CredentialMissing(apiKey) THEN "generate_nokey" ELSE "generate_sent"
  /\ UNCHANGED <<route, crashed, resumeData, projectFields, activityFields,
                 formErrors, isGenerating, apiKey, exportRuns, exportsStarted, saved>>
  /\ entered' = NoData
  /\ resolved' = NoResponse
  /\ Render

\* the response text taken as it is, empty or not
textOrFallback_raw(text) == text

\* response.text || "Passionate student eager to contribute to innovative projects."
textOrFallback(text) == IF Truthy(text) THEN text ELSE GenericFallback

\* a continuation that drops the response of a request that is not the latest issued
SummaryResolves_latestOnly(r, text) ==
  /\ r \in summaryCalls
  /\ summaryCalls' = summaryCalls \ {r}
  /\ IF r.live
     THEN /\ aiSummary' = IF r.id # netCalls THEN aiSummary
                          ELSE textOrFallback(text)
          /\ loadingAi' = FALSE
          /\ resolved' = [id |-> r.id, rejected |-> FALSE, text |-> text]
          /\ lastOp' = "summary_ok"
     ELSE /\ UNCHANGED <<aiSummary, loadingAi>>
          /\ resolved' = NoResponse
          /\ lastOp' = "summary_detached"
  /\ UNCHANGED <<route, crashed, resumeData, projectFields, activityFields,
                 formErrors, isGenerating, apiKey, netCalls, exportRuns,
                 exportsStarted, saved>>
  /\ entered' = NoData
  /\ Render

\* the awaited request resolves: setAiSummary(response.text || fallback), then finally
SummaryResolves(r, text) ==
  /\ r \in summaryCalls
  /\ summaryCalls' = summaryCalls \ {r}
  /\ IF r.live
     THEN /\ aiSummary' = textOrFallback(text)
          /\ loadingAi' = FALSE
          /\ resolved' = [id |-> r.id, rejected |-> FALSE, text |-> text]
          /\ lastOp' = "summary_ok"
     ELSE /\ UNCHANGED <<aiSummary, loadingAi>>
          /\ resolved' = NoResponse
          /\ lastOp' = "summary_detached"
  /\ UNCHANGED <<route, crashed, resumeData, projectFields, activityFields,
                 formErrors, isGenerating, apiKey, netCalls, exportRuns,
                 exportsStarted, saved>>
  /\ entered' = NoData
  /\ Render

\* a catch block that reuses the missing-credential text
SummaryRejects_sentinel(r) ==
  /\ r \in summaryCalls
  /\ summaryCalls' = summaryCalls \ {r}
  /\ IF r.live
     THEN /\ aiSummary' = SentinelText
          /\ loadingAi' = FALSE
          /\ resolved' = [id |-> r.id, rejected |-> TRUE, text |-> ""]
          /\ lastOp' = "summary_failed"
     ELSE /\ UNCHANGED <<aiSummary, loadingAi>>
          /\ resolved' = NoResponse
          /\ lastOp' = "summary_detached"
  /\ UNCHANGED <<route, crashed, resumeData, projectFields, activityFields,
                 formErrors, isGenerating, apiKey, netCalls, exportRuns,
                 exportsStarted, saved>>
  /\ entered' = NoData
  /\ Render

\* the awaited request rejects: catch logs and sets the fallback, then finally
SummaryRejects(r) ==
  /\ r \in summaryCalls
  /\ summaryCalls' = summaryCalls \ {r}
  /\ IF r.live
     THEN /\ aiSummary' = GenericFallback
          /\ loadingAi' = FALSE
          /\ resolved' = [id |-> r.id, rejected |-> TRUE, text |-> ""]
          /\ lastOp' = "summary_failed"
     ELSE /\ UNCHANGED <<aiSummary, loadingAi>>
          /\ resolved' = NoResponse
          /\ lastOp' = "summary_detached"
  /\ UNCHANGED <<route, crashed, resumeData, projectFields, activityFields,
                 formErrors, isGenerating, apiKey, netCalls, exportRuns,
                 exportsStarted, saved>>
  /\ entered' = NoData
  /\ Render

(***************************************************************************)
(* downloadPDF                                                             *)
(***************************************************************************)
\* the file name built from the name as entered, without the replace
fileName_raw(data) ==
  (IF data = NoData THEN "undefined" ELSE data.name) \o "_Resume.pdf"

\* `${data?.name.replace(/\s+/g, '_')}_Resume.pdf`
fileName(data) ==
  (IF data = NoData THEN "undefined" ELSE replaceWhitespace(data.name)) \o "_Resume.pdf"

\* the "Download PDF" button (disabled while isGenerating), up to await html2canvas
downloadPDF ==
  /\ route = "/preview" /\ ~ crashed
  /\ ~ isGenerating
  /\ exportsStarted < MaxExports
  /\ isGenerating' = TRUE
  /\ exportRuns' = exportRuns \cup
       {[id |-> exportsStarted + 1, live |-> TRUE, file |-> fileName(resumeData)]}
  /\ exportsStarted' = exportsStarted + 1
  /\ lastOp' = "export_start"
  /\ UNCHANGED <<route, crashed, resumeData, projectFields, activityFields,
                 formErrors, aiSummary, loadingAi, apiKey, summaryCalls, netCalls,
                 saved>>
  /\ entered' = NoData
  /\ resolved' = NoResponse
  /\ Render

\* html2canvas resolved and the PDF was assembled: pdf.save, then finally
ExportSaves(r) ==
  /\ r \in exportRuns
  /\ exportRuns' = exportRuns \ {r}
  /\ saved' = Append(saved, [run |-> r.id, file |-> r.file])
  /\ isGenerating' = IF r.live THEN FALSE ELSE isGenerating
  /\ lastOp' = IF r.live THEN "export_saved" ELSE "export_saved_detached"
  /\ UNCHANGED <<route, crashed, resumeData, projectFields, activityFields,
                 formErrors, aiSummary, loadingAi, apiKey, summaryCalls, netCalls,
                 exportsStarted>>
  /\ entered' = NoData
  /\ resolved' = NoResponse
  /\ Render

\* a failure path without the finally block: the flag is not cleared
ExportThrows_noFinally(r) ==
  /\ r \in exportRuns
  /\ exportRuns' = exportRuns \ {r}
  /\ lastOp' = IF r.live THEN "export_failed" ELSE "export_failed_detached"
  /\ UNCHANGED <<route, crashed, resumeData, projectFields, activityFields,
                 formErrors, isGenerating, aiSummary, loadingAi, apiKey,
                 summaryCalls, netCalls, exportsStarted, saved>>
  /\ entered' = NoData
  /\ resolved' = NoResponse
  /\ Render

\* html2canvas rejected, or toDataURL / jsPDF / addImage / save threw: catch, then finally
ExportThrows(r) ==
  /\ r \in exportRuns
  /\ exportRuns' = exportRuns \ {r}
  /\ isGenerating' = IF r.live THEN FALSE ELSE isGenerating
  /\ lastOp' = IF r.live THEN "export_failed" ELSE "export_failed_detached"
  /\ UNCHANGED <<route, crashed, resumeData, projectFields, activityFields,
                 formErrors, aiSummary, loadingAi, apiKey, summaryCalls, netCalls,
                 exportsStarted, saved>>
  /\ entered' = NoData
  /\ resolved' = NoResponse
  /\ Render

(***************************************************************************)
(* The form                                                                *)
(***************************************************************************)
\* a row id no row of the array uses
FreshId(fields) ==
  CHOOSE n \in 1..(Len(fields) + 1) : \A i \in 1..Len(fields) : fields[i] # n

\* the sequence without its element at index i
RemoveAt(fields, i) ==
  [k \in 1..(Len(fields) - 1) |-> IF k < i THEN fields[k] ELSE fields[k + 1]]

\* useFieldArray's remove on formState.errors: row i's errors go, later rows shift up
ErrorsAfterRemove(errs, arr, i) ==
  { e \in errs : ~ (Len(e) = 3 /\ e[1] = arr /\ e[2] >= i) }
  \cup { <<arr, e[2] - 1, e[3]>> : e \in { x \in errs : Len(x) = 3 /\ x[1] = arr /\ x[2] > i } }

appendProject ==
  /\ route = "/form" /\ ~ crashed
  /\ Len(projectFields) < MaxRows
  /\ projectFields' = Append(projectFields, FreshId(projectFields))
  /\ lastOp' = "edit_rows"
  /\ UNCHANGED <<route, crashed, resumeData, activityFields, formErrors,
                 isGenerating, aiSummary, loadingAi, apiKey, summaryCalls, netCalls,
                 exportRuns, exportsStarted, saved>>
  /\ entered' = NoData
  /\ resolved' = NoResponse
  /\ Render

\* a Remove button rendered on every row, the first included
removeProject_anyRow(i) ==
  /\ route = "/form" /\ ~ crashed
  /\ i \in 1..Len(projectFields)
  /\ projectFields' = RemoveAt(projectFields, i)
  /\ formErrors' = ErrorsAfterRemove(formErrors, "projects", i)
  /\ lastOp' = "edit_rows"
  /\ UNCHANGED <<route, crashed, resumeData, activityFields,
                 isGenerating, aiSummary, loadingAi, apiKey, summaryCalls, netCalls,
                 exportRuns, exportsStarted, saved>>
  /\ entered' = NoData
  /\ resolved' = NoResponse
  /\ Render

\* the Remove button is rendered for index > 0 only (rows are numbered from 1 here)
removeProject(i) ==
  /\ route = "/form" /\ ~ crashed
  /\ i \in 2..Len(projectFields)
  /\ projectFields' = RemoveAt(projectFields, i)
  /\ formErrors' = ErrorsAfterRemove(formErrors, "projects", i)
  /\ lastOp' = "edit_rows"
  /\ UNCHANGED <<route, crashed, resumeData, activityFields,
                 isGenerating, aiSummary, loadingAi, apiKey, summaryCalls, netCalls,
                 exportRuns, exportsStarted, saved>>
  /\ entered' = NoData
  /\ resolved' = NoResponse
  /\ Render

appendActivity ==
  /\ route = "/form" /\ ~ crashed
  /\ Len(activityFields) < MaxRows
  /\ activityFields' = Append(activityFields, FreshId(activityFields))
  /\ lastOp' = "edit_rows"
  /\ UNCHANGED <<route, crashed, resumeData, projectFields, formErrors,
                 isGenerating, aiSummary, loadingAi, apiKey, summaryCalls, netCalls,
                 exportRuns, exportsStarted, saved>>
  /\ entered' = NoData
  /\ resolved' = NoResponse
  /\ Render

removeActivity(i) ==
  /\ route = "/form" /\ ~ crashed
  /\ i \in 2..Len(activityFields)
  /\ activityFields' = RemoveAt(activityFields, i)
  /\ formErrors' = ErrorsAfterRemove(formErrors, "activities", i)
  /\ lastOp' = "edit_rows"
  /\ UNCHANGED <<route, crashed, resumeData, projectFields,
                 isGenerating, aiSummary, loadingAi, apiKey, summaryCalls, netCalls,
                 exportRuns, exportsStarted, saved>>
  /\ entered' = NoData
  /\ resolved' = NoResponse
  /\ Render

\* onSubmit(data): setResumeData, navigate('/preview'); ResumePreview mounts and its
\* effect calls generateSummary because data is set and aiSummary is still ""
onSubmit(data) ==
  /\ resumeData' = data
  /\ route' = "/preview"
  /\ FormMounted
  /\ isGenerating' = FALSE
  /\ GenerateStart("")
  /\ lastOp' = "submit_ok"
  /\ UNCHANGED <<crashed, apiKey, exportRuns, exportsStarted, saved>>

\* handleSubmit(onSubmit): the resolver runs resumeSchema on the entered values v
handleSubmit(v) ==
  /\ route = "/form" /\ ~ crashed
  /\ LET issues == resumeSchema(v)
     IN IF issues = {}
        THEN onSubmit(v)
        ELSE /\ formErrors' = issues
             /\ lastOp' = "submit_invalid"
             /\ UNCHANGED <<route, crashed, resumeData, projectFields,
                            activityFields, isGenerating, aiSummary, loadingAi,
                            apiKey, summaryCalls, netCalls, exportRuns,
                            exportsStarted, saved>>
  /\ entered' = v
  /\ resolved' = NoResponse
  /\ Render

(***************************************************************************)
(* Navigation                                                              *)
(***************************************************************************)
\* Landing's "Create Resume": navigate('/form')
CreateResume ==
  /\ route = "/" /\ ~ crashed
  /\ route' = "/form"
  /\ FormMounted
  /\ lastOp' = "navigate"
  /\ UNCHANGED <<crashed, resumeData, isGenerating, aiSummary, loadingAi, apiKey,
                 summaryCalls, netCalls, exportRuns, exportsStarted, saved>>
  /\ entered' = NoData
  /\ resolved' = NoResponse
  /\ Render

\* the form's back button: navigate('/')
FormBack ==
  /\ route = "/form" /\ ~ crashed
  /\ route' = "/"
  /\ FormMounted
  /\ lastOp' = "navigate"
  /\ UNCHANGED <<crashed, resumeData, isGenerating, aiSummary, loadingAi, apiKey,
                 summaryCalls, netCalls, exportRuns, exportsStarted, saved>>
  /\ entered' = NoData
  /\ resolved' = NoResponse
  /\ Render

\* "Edit Details" that also clears the stored record
EditDetails_clearsRecord ==
  /\ route = "/preview" /\ ~ crashed
  /\ route' = "/form"
  /\ FormMounted
  /\ PreviewReset
  /\ summaryCalls' = Detach(summaryCalls)
  /\ exportRuns' = Detach(exportRuns)
  /\ resumeData' = NoData
  /\ lastOp' = "navigate"
  /\ UNCHANGED <<crashed, apiKey, netCalls, exportsStarted, saved>>
  /\ entered' = NoData
  /\ resolved' = NoResponse
  /\ Render

\* the preview's "Edit Details": navigate('/form'); ResumePreview unmounts
EditDetails ==
  /\ route = "/preview" /\ ~ crashed
  /\ route' = "/form"
  /\ FormMounted
  /\ PreviewReset
  /\ summaryCalls' = Detach(summaryCalls)
  /\ exportRuns' = Detach(exportRuns)
  /\ lastOp' = "navigate"
  /\ UNCHANGED <<crashed, resumeData, apiKey, netCalls, exportsStarted, saved>>
  /\ entered' = NoData
  /\ resolved' = NoResponse
  /\ Render

(***************************************************************************)
(* Specification of the application: navigation, submits of the form with *)
(* its default rows, summary generation and export.  The rows of the form  *)
(* are edited under SpecForm below.                                        *)
(***************************************************************************)
\* the session starts at any of the three routes; rendering /preview without a
\* record reads data.name of null and throws
Init ==
  /\ route \in {"/", "/form", "/preview"}
  /\ resumeData = NoData
  /\ crashed = (route = "/preview" /\ RenderThrows(resumeData))
  /\ projectFields = <<1>>
  /\ activityFields = <<1>>
  /\ formErrors = {}
  /\ isGenerating = FALSE
  /\ aiSummary = ""
  /\ loadingAi = FALSE
  /\ apiKey \in ApiKeys
  /\ summaryCalls = {}
  /\ netCalls = 0
  /\ exportRuns = {}
  /\ exportsStarted = 0
  /\ saved = <<>>
  /\ display = NoDisplay
  /\ entered = NoData
  /\ resolved = NoResponse
  /\ lastOp = "init"

Next ==
  \/ CreateResume
  \/ FormBack
  \/ EditDetails
  \/ \E v \in SessionValues(Len(projectFields), Len(activityFields)) : handleSubmit(v)
  \/ generateSummary
  \/ \E r \in summaryCalls : \E text \in ResponseTexts : SummaryResolves(r, text)
  \/ \E r \in summaryCalls : SummaryRejects(r)
  \/ downloadPDF
  \/ \E r \in exportRuns : ExportSaves(r)
  \/ \E r \in exportRuns : ExportThrows(r)

Spec == Init /\ [][Next]_vars

(***************************************************************************)
(* Specification of the form alone, in a session without a credential: the *)
(* form is open, with or without a record stored by an earlier submit, its *)
(* rows are edited and every entry of EnteredValues is submitted           *)
(***************************************************************************)
InitForm ==
  /\ route = "/form"
  /\ crashed = FALSE
  /\ resumeData \in {NoData, Bob(1, 1)}
  /\ projectFields = <<1>>
  /\ activityFields = <<1>>
  /\ formErrors = {}
  /\ isGenerating = FALSE
  /\ aiSummary = ""
  /\ loadingAi = FALSE
  /\ apiKey = NoKey
  /\ summaryCalls = {}
  /\ netCalls = 0
  /\ exportRuns = {}
  /\ exportsStarted = 0
  /\ saved = <<>>
  /\ display = NoDisplay
  /\ entered = NoData
  /\ resolved = NoResponse
  /\ lastOp = "init"

NextForm ==
  \/ CreateResume
  \/ FormBack
  \/ appendProject
  \/ \E i \in 1..MaxRows : removeProject(i)
  \/ appendActivity
  \/ \E i \in 1..MaxRows : removeActivity(i)
  \/ \E v \in EnteredValues(Len(projectFields), Len(activityFields)) : handleSubmit(v)

SpecForm == InitForm /\ [][NextForm]_vars

(***************************************************************************)
(* Specification of the scoring function: one render of ResumePreview on   *)
(* each record and summary of a bounded set, valid for the form or not     *)
(***************************************************************************)
RECURSIVE Joined(_, _)
Joined(n, sep) ==
  IF n = 0 THEN "" ELSE IF n = 1 THEN "sk" ELSE Joined(n - 1, sep) \o sep \o "sk"

\* n skills written plainly, with a trailing comma, with doubled commas, with
\* blanks around the commas and a blank last entry
SkillTexts ==
  UNION { { Joined(n, ","), Joined(n, ",") \o ",", Joined(n, ",,"),
            Joined(n, " , ") \o ", " } : n \in 0..MaxSkills }

ProjNoDesc == [title |-> "Idea", description |-> "", technologies |-> ""]

ProjectLists ==
  { <<>>, <<ProjShort>>, <<ProjLong>>, <<ProjNoDesc, ProjLong>>, <<ProjNoDesc, ProjShort>> }

ScoreSummaries ==
  { "", SentinelText, GenericFallback,
    "Curious builder. (Note: Gemini API key is missing from this draft)",
    "Driven first-year student who builds compilers." }

ScoreRecords ==
  { [name |-> f[1], email |-> f[2], phone |-> f[3], linkedin |-> "", github |-> "",
     location |-> "", college |-> f[4], degree |-> f[5], year |-> "", cgpa |-> "",
     technicalSkills |-> sk, softSkills |-> "", projects |-> ps, activities |-> as] :
    f \in {"", "Jane"} \X {"", "jane@uni.edu"} \X {"", "5551234567"}
          \X {"", "MIT"} \X {"", "BSc"},
    sk \in SkillTexts, ps \in ProjectLists, as \in {<<>>, <<ActivityVal>>} }

InitScore ==
  /\ route = "/preview"
  /\ crashed = FALSE
  /\ resumeData \in ScoreRecords
  /\ aiSummary \in ScoreSummaries
  /\ projectFields = <<1>>
  /\ activityFields = <<1>>
  /\ formErrors = {}
  /\ isGenerating = FALSE
  /\ loadingAi = FALSE
  /\ apiKey = NoKey
  /\ summaryCalls = {}
  /\ netCalls = 0
  /\ exportRuns = {}
  /\ exportsStarted = 0
  /\ saved = <<>>
  /\ display = NoDisplay
  /\ entered = NoData
  /\ resolved = NoResponse
  /\ lastOp = "init"

\* the render: calculateResumeScore(data, aiSummary) is shown
ScoreRender ==
  /\ ~ display.shown
  /\ display' = Rendered(resumeData, aiSummary)
  /\ lastOp' = "render"
  /\ UNCHANGED <<route, crashed, resumeData, projectFields, activityFields,
                 formErrors, isGenerating, aiSummary, loadingAi, apiKey,
                 summaryCalls, netCalls, exportRuns, exportsStarted, saved>>
  /\ entered' = NoData
  /\ resolved' = NoResponse

NextScore == ScoreRender

SpecScore == InitScore /\ [][NextScore]_vars

(***************************************************************************)
(* Specification of the export alone: a preview, in a session without a    *)
(* credential, that shows a record submitted with one of ExportNames as    *)
(* its name; the record is exported, each run saving or failing            *)
(***************************************************************************)
MaxNameLen == 3

\* a letter, the space, the tab and the underscore itself
NameChars == {"a", " ", "\t", "_"}

RECURSIVE Strings(_)
Strings(n) ==
  IF n = 0 THEN {""} ELSE { s \o c : s \in Strings(n - 1), c \in NameChars }

\* names the schema accepts (two characters or more), whitespace-only ones included
ExportNames ==
  {"Jane Q. Doe", "Bob  Ray"} \cup UNION { Strings(n) : n \in 2..MaxNameLen }

ExportRecords == { [Jane(1, 1) EXCEPT !.name = n] : n \in ExportNames }

\* the state a valid submit leaves: the preview is mounted, its effect has set
\* the missing-credential text
InitExport ==
  /\ route = "/preview"
  /\ crashed = FALSE
  /\ resumeData \in ExportRecords
  /\ projectFields = <<1>>
  /\ activityFields = <<1>>
  /\ formErrors = {}
  /\ isGenerating = FALSE
  /\ aiSummary = SentinelText
  /\ loadingAi = FALSE
  /\ apiKey = NoKey
  /\ summaryCalls = {}
  /\ netCalls = 0
  /\ exportRuns = {}
  /\ exportsStarted = 0
  /\ saved = <<>>
  /\ display = Rendered(resumeData, aiSummary)
  /\ entered = resumeData
  /\ resolved = NoResponse
  /\ lastOp = "submit_ok"

NextExport ==
  \/ downloadPDF
  \/ \E r \in exportRuns : ExportSaves(r)
  \/ \E r \in exportRuns : ExportThrows(r)

SpecExport == InitExport /\ [][NextExport]_vars

(***************************************************************************)
(* The rubric as the specification states it, for the properties below     *)
(***************************************************************************)
\* the number of comma-separated entries of s that hold a non-whitespace character
NonBlankEntries(s) ==
  LET cuts == {0, Len(s) + 1} \cup {i \in 1..Len(s) : Char(s, i) = ","}
      segments == { seg \in cuts \X cuts :
                      /\ seg[1] < seg[2]
                      /\ \A c \in cuts : ~ (seg[1] < c /\ c < seg[2]) }
  IN Cardinality({ seg \in segments :
                     \E i \in (seg[1] + 1)..(seg[2] - 1) : Char(s, i) \notin Whitespace })

Criteria == <<"contact", "education", "skills", "projects", "activities", "summary">>

Met(c, d, sum) ==
  CASE c = "contact" -> d.name # "" /\ d.email # "" /\ d.phone # ""
    [] c = "education" -> d.college # "" /\ d.degree # ""
    [] c = "skills" -> NonBlankEntries(d.technicalSkills) >= 8
    [] c = "projects" -> \E i \in 1..Len(d.projects) : Len(d.projects[i].description) > 40
    [] c = "activities" -> Len(d.activities) >= 1
    [] c = "summary" -> sum # "" /\ ~ includes(sum, Marker)

SuggestionsFor(c) ==
  CASE c = "contact" -> {FbContact}
    [] c = "education" -> {FbEducation}
    [] c = "skills" -> {FbSkills8, FbSkills5, FbSkills0}
    [] c = "projects" -> {FbProjectDesc, FbProjectNone}
    [] c = "activities" -> {FbActivities}
    [] c = "summary" -> {FbSummary}

Unmet(d, sum) == SelectSeq(Criteria, LAMBDA c : ~ Met(c, d, sum))

SkillPoints(n) ==
  CASE n <= 2 -> 0
    [] 3 <= n /\ n <= 4 -> 5
    [] 5 <= n /\ n <= 7 -> 10
    [] n >= 8 -> 20

ProjectPoints(d) ==
  IF Len(d.projects) = 0 THEN 0
  ELSE IF Met("projects", d, "") THEN 25 ELSE 10

\* the points of the five criteria other than the skills
PointsBesideSkills(d, sum) ==
    (IF Met("contact", d, sum) THEN 10 ELSE 0)
  + (IF Met("education", d, sum) THEN 15 ELSE 0)
  + ProjectPoints(d)
  + (IF Met("activities", d, sum) THEN 10 ELSE 0)
  + (IF Met("summary", d, sum) THEN 20 ELSE 0)

\* the points of the five criteria other than the summary
PointsBesideSummary(d) ==
  PointsBesideSkills(d, "") + SkillPoints(NonBlankEntries(d.technicalSkills))

\* a record that meets the five criteria about the record
FullRecord(d) == \A i \in 1..5 : Met(Criteria[i], d, "")

(***************************************************************************)
(* Properties of calculateResumeScore, checked under SpecScore             *)
(***************************************************************************)
\* C1 as stated: a full record and any non-empty summary other than the
\* missing-credential sentinel score 100 with no feedback
C1_AnySummaryButSentinel ==
  (display.shown /\ FullRecord(resumeData)
     /\ aiSummary # "" /\ aiSummary # SentinelText)
  => (display.score = 100 /\ display.feedback = <<>>)

\* C1: a record with contact and education fields non-empty, at least 8
\* non-blank technical skills, a project description longer than 40 characters
\* and an activity, with a non-empty summary that does not contain the marker
\* substring, scores 100 and gets an empty feedback list
C1_FullScore ==
  (display.shown /\ FullRecord(resumeData)
     /\ aiSummary # "" /\ ~ includes(aiSummary, Marker))
  => (display.score = 100 /\ display.feedback = <<>>)

C1_Witness ==
  /\ display.shown /\ FullRecord(resumeData)
  /\ Len(resumeData.projects) = 2
  /\ aiSummary = GenericFallback
  /\ display.score = 100

\* C2: the feedback list holds exactly one suggestion per unmet criterion and
\* none for a met one, in the order contact, education, skills, projects,
\* activities, summary; no projects gives exactly one project suggestion, and
\* the empty record with an empty summary gives six suggestions
C2_FeedbackPerUnmetCriterion ==
  display.shown =>
    LET u == Unmet(resumeData, aiSummary)
        fb == display.feedback
    IN /\ Len(fb) = Len(u)
       /\ \A i \in 1..Len(u) : fb[i] \in SuggestionsFor(u[i])
       /\ Len(resumeData.projects) = 0 =>
            Cardinality({i \in 1..Len(fb) : fb[i] \in SuggestionsFor("projects")}) = 1
       /\ (\A c \in 1..6 : ~ Met(Criteria[c], resumeData, aiSummary)) =>
            /\ Len(fb) = 6
            /\ \A i \in 1..6 : fb[i] \in SuggestionsFor(Criteria[i])

C2_Witness ==
  /\ display.shown
  /\ resumeData.name = "" /\ resumeData.technicalSkills = ""
  /\ Len(resumeData.projects) = 0 /\ Len(resumeData.activities) = 0
  /\ aiSummary = ""
  /\ Len(display.feedback) = 6

\* C3: the skills contribution to the score is 0 for n <= 2, 5 for 3..4, 10 for
\* 5..7 and 20 for n >= 8, n being the number of non-blank comma-separated
\* entries of technicalSkills; blank entries are not counted
C3_SkillsStep ==
  display.shown =>
    display.score - PointsBesideSkills(resumeData, aiSummary)
      = SkillPoints(NonBlankEntries(resumeData.technicalSkills))

C3_Witness ==
  /\ display.shown
  /\ NonBlankEntries(resumeData.technicalSkills) = 7
  /\ Len(split(resumeData.technicalSkills, ",")) >= 8
  /\ display.score - PointsBesideSkills(resumeData, aiSummary) = 10

(***************************************************************************)
(* Properties of generateSummary, checked under Spec                       *)
(***************************************************************************)
PreviewShown == route = "/preview" /\ ~ crashed

\* C4: with a missing or placeholder credential the summary of the preview is
\* the sentinel, which contains the marker; the score is then the sum of the
\* other five criteria (no 20-point bonus) and the feedback ends with the
\* summary suggestion, for the record shown
C4_SentinelWithheld ==
  (PreviewShown /\ apiKey \in {NoKey, "", Placeholder, "undefined"})
  => /\ aiSummary = SentinelText
     /\ includes(aiSummary, Marker)
     /\ display.shown
     /\ display.score = PointsBesideSummary(resumeData)
     /\ Len(display.feedback) >= 1
     /\ display.feedback[Len(display.feedback)] = FbSummary

C4_Witness ==
  /\ PreviewShown /\ apiKey = Placeholder
  /\ lastOp = "generate_nokey"
  /\ resumeData = Jane(1, 1)
  /\ aiSummary = SentinelText
  /\ display.score = 80

\* C5: after the generation request of the preview fails, the summary is the
\* generic fallback sentence, which is not the sentinel and has no marker; the
\* score includes the 20-point bonus, no summary suggestion is given and the
\* preview is rendered, not crashed
C5_FailureFallback ==
  lastOp = "summary_failed"
  => /\ aiSummary = "Passionate student eager to contribute to innovative projects."
     /\ aiSummary # SentinelText
     /\ ~ includes(aiSummary, Marker)
     /\ PreviewShown /\ display.shown
     /\ display.score = PointsBesideSummary(resumeData) + 20
     /\ \A i \in 1..Len(display.feedback) : display.feedback[i] # FbSummary

C5_Witness ==
  /\ lastOp = "summary_failed"
  /\ resumeData = Bob(1, 1)
  /\ aiSummary = GenericFallback
  /\ display.score = 10 + 15 + 0 + 10 + 10 + 20

\* C6: while the credential is absent, the placeholder or the string
\* "undefined", no request is ever issued to the collaborator: every trigger
\* substitutes the sentinel and ends with the loading flag cleared
C6_NoCallWithoutCredential ==
  apiKey \in {NoKey, Placeholder, "undefined"}
  => /\ netCalls = 0
     /\ summaryCalls = {}
     /\ PreviewShown => (aiSummary = SentinelText /\ ~ loadingAi)

C6_Witness ==
  /\ apiKey = "undefined"
  /\ lastOp = "generate_nokey"
  /\ netCalls = 0
  /\ aiSummary = SentinelText

(***************************************************************************)
(* Properties of downloadPDF, checked under Spec                           *)
(***************************************************************************)
RunIds(runs) == { r.id : r \in runs }

\* C7 as stated: at most one downloadPDF run is between its start and its end
\* at any time, and each accepted trigger saves at most one file
C7_SingleExportInFlight ==
  /\ Cardinality(exportRuns) <= 1
  /\ \A i, j \in 1..Len(saved) : saved[i].run = saved[j].run => i = j

\* C8: when an export run ends, by success or by failure, the isGenerating
\* flag of its preview is false afterwards and the preview is still rendered,
\* so the download button is enabled again; a run that fails saves no file;
\* and the flag is never true without a run of the preview in flight
C8_ExportEndClearsFlag ==
  [][ /\ \A r \in exportRuns :
           r.id \notin RunIds(exportRuns') =>
             /\ r.live => (~ isGenerating' /\ route' = "/preview" /\ ~ crashed')
             /\ lastOp' \in {"export_failed", "export_failed_detached"} => saved' = saved
      /\ isGenerating' => \E r \in exportRuns' : r.live
    ]_vars

C8_Witness ==
  /\ lastOp = "export_failed"
  /\ ~ isGenerating
  /\ exportsStarted = 1
  /\ saved = <<>>
  /\ exportRuns = {}

(***************************************************************************)
(* Properties of the form, checked under SpecForm                          *)
(***************************************************************************)
\* the constraints of the form as the specification lists them
C9_Satisfies(v) ==
  /\ Len(v.name) >= 2 /\ IsEmail(v.email) /\ Len(v.phone) >= 10
  /\ v.linkedin = "" \/ IsUrl(v.linkedin)
  /\ v.github = "" \/ IsUrl(v.github)
  /\ Len(v.location) >= 2 /\ Len(v.college) >= 2 /\ Len(v.degree) >= 2
  /\ Len(v.year) >= 4
  /\ Len(v.technicalSkills) >= 2 /\ Len(v.softSkills) >= 2
  /\ Len(v.projects) >= 1 /\ Len(v.activities) >= 1
  /\ \A i \in 1..Len(v.projects) :
       /\ Len(v.projects[i].title) >= 2
       /\ Len(v.projects[i].description) >= 10
       /\ Len(v.projects[i].technologies) >= 2
  /\ \A i \in 1..Len(v.activities) :
       /\ Len(v.activities[i].role) >= 2
       /\ Len(v.activities[i].achievements) >= 5

\* C9: a submit of values that satisfy every constraint stores them as the
\* record and moves to the preview; a submit of values that violate a
\* constraint reports errors, keeps the stored record and stays on the form
C9_SubmitValidates ==
  [][ lastOp' \in {"submit_ok", "submit_invalid"} =>
        IF C9_Satisfies(entered')
        THEN resumeData' = entered' /\ route' = "/preview"
        ELSE formErrors' # {} /\ resumeData' = resumeData /\ route' = route
    ]_vars

C9_Witness ==
  /\ lastOp = "submit_invalid"
  /\ route = "/form"
  /\ resumeData = Bob(1, 1)
  /\ Len(entered.projects) = 2
  /\ <<"projects", 2, "description">> \in formErrors

(***************************************************************************)
(* Properties of the loading placeholder, checked under Spec               *)
(***************************************************************************)
\* C10 as stated: whenever a summary request of the preview is in flight, the
\* loading placeholder is shown
C10_LoadingWhileInFlight ==
  (PreviewShown /\ \E r \in summaryCalls : r.live) => loadingAi

(***************************************************************************)
(* Properties of the preview without a record, checked under Spec          *)
(***************************************************************************)
\* C11 as stated: the preview opened with no record submitted renders (the
\* "No data provided" notice), no step of its render fails
C11_NoRecordDegrades ==
  (route = "/preview" /\ resumeData = NoData) => ~ crashed

(***************************************************************************)
(* Properties of the stored record, checked under Spec                     *)
(***************************************************************************)
\* C12 as stated: once a record is stored, no step changes or replaces it
C12_RecordNeverReplaced ==
  [][resumeData # NoData => resumeData' = resumeData]_vars

\* C12, amended: the stored record changes only by a submission that passes
\* validation, which stores exactly the submitted values; navigation (Edit
\* Details included), generations and exports leave it as it is, and once
\* stored it is never cleared
C12_RecordChangesOnlyBySubmit ==
  [][/\ resumeData' # resumeData =>
          /\ lastOp' = "submit_ok"
          /\ resumeData' = entered'
          /\ C9_Satisfies(entered')
     /\ lastOp' # "submit_ok" => resumeData' = resumeData
     /\ resumeData # NoData => resumeData' # NoData]_vars

\* a second valid submission has replaced the record whose export was saved,
\* and the record has since gone through a generation in the new preview
C12_Witness ==
  /\ Len(saved) >= 1
  /\ saved[1].file = "Jane_Q._Doe_Resume.pdf"
  /\ resumeData = Bob(1, 1)
  /\ route = "/preview"
  /\ lastOp \in {"summary_ok", "summary_failed", "generate_nokey"}

(***************************************************************************)
(* Properties of the export file name, checked under SpecExport            *)
(***************************************************************************)
\* stem is name with its non-whitespace characters kept, in order, and an
\* underscore at every place where name has whitespace
RECURSIVE Aligned(_, _, _, _)
Aligned(name, i, stem, j) ==
  IF i > Len(name) THEN j = Len(stem) + 1
  ELSE IF Char(name, i) \notin Whitespace
       THEN /\ j <= Len(stem)
            /\ Char(stem, j) = Char(name, i)
            /\ Aligned(name, i + 1, stem, j + 1)
       ELSE \/ /\ j <= Len(stem)
               /\ Char(stem, j) = "_"
               /\ Aligned(name, i + 1, stem, j + 1)
            \/ /\ i > 1
               /\ Char(name, i - 1) \in Whitespace
               /\ Aligned(name, i + 1, stem, j)

Suffix == "_Resume.pdf"

FileNameOf(name, file) ==
  LET n == Len(file) - Len(Suffix)
  IN /\ n >= 0
     /\ SubSeq(file, n + 1, Len(file)) = Suffix
     /\ Aligned(name, 1, SubSeq(file, 1, n), 1)
     /\ \A i \in 1..Len(file) : Char(file, i) \notin Whitespace
     /\ name = "Jane Q. Doe" => file = "Jane_Q._Doe_Resume.pdf"

\* C13: the file name of every export of a record is the record's name with
\* its whitespace replaced by underscores and every other character kept in
\* order, followed by "_Resume.pdf"; it holds no whitespace; the name
\* "Jane Q. Doe" gives "Jane_Q._Doe_Resume.pdf"
C13_FileName ==
  /\ \A r \in exportRuns : FileNameOf(resumeData.name, r.file)
  /\ \A i \in 1..Len(saved) : FileNameOf(resumeData.name, saved[i].file)

\* the export of Jane Q. Doe's record was saved
C13_Witness ==
  /\ resumeData.name = "Jane Q. Doe"
  /\ lastOp = "export_saved"
  /\ saved[Len(saved)].file = "Jane_Q._Doe_Resume.pdf"

(***************************************************************************)
(* Properties of overlapping summary requests, checked under Spec          *)
(***************************************************************************)
\* the summary text a settled request leaves: its text, or the generic fallback
\* when it was rejected or its text is empty
ResultOf(response) ==
  IF response.rejected \/ response.text = "" THEN GenericFallback ELSE response.text

LiveCalls == { r \in summaryCalls : r.live }

\* C14: a trigger while a request is pending cancels nothing; every request of
\* the preview that settles has its result applied, whatever the order of the
\* triggers; and in a preview with a credential the summary changes by nothing
\* else, so that once all requests have settled the visible summary is the
\* result of the one that settled last
C14_LastSettledWins ==
  [][/\ lastOp' = "generate_sent" =>
          /\ summaryCalls \subseteq summaryCalls'
          /\ Cardinality(summaryCalls') = Cardinality(summaryCalls) + 1
     /\ resolved' # NoResponse =>
          /\ aiSummary' = ResultOf(resolved')
          /\ \E r \in LiveCalls : r.id = resolved'.id /\ summaryCalls' = summaryCalls \ {r}
     /\ (route = "/preview" /\ route' = "/preview" /\ aiSummary' # aiSummary) =>
          (resolved' # NoResponse \/ lastOp' = "generate_nokey")]_vars

\* the request triggered first settled after the one triggered second, nothing
\* is in flight any more, and its text is the visible summary
C14_Witness ==
  /\ route = "/preview"
  /\ resolved # NoResponse
  /\ resolved.id + 1 = netCalls
  /\ summaryCalls = {}
  /\ ~ resolved.rejected /\ resolved.text # ""
  /\ aiSummary = resolved.text

(***************************************************************************)
(* Properties of the displayed score, checked under Spec                   *)
(***************************************************************************)
\* the sum of the six criteria: contact 10, education 15, skills 0/5/10/20,
\* projects 0/10/25, activities 10, summary 20
RubricSum(d, sum) ==
  PointsBesideSummary(d) + (IF Met("summary", d, sum) THEN 20 ELSE 0)

\* C15: in every state of the preview that holds a record, the score shown is
\* the rubric's sum for the record and the summary text of that same state,
\* and lies in 0..100
C15_ScoreIsCurrent ==
  (PreviewShown /\ resumeData # NoData) =>
     /\ display.shown
     /\ display.score = RubricSum(resumeData, aiSummary)
     /\ display.score \in 0..100

\* a second request has settled and replaced the summary; Jane's record shows 100
C15_Witness ==
  /\ PreviewShown
  /\ resumeData = Jane(1, 1)
  /\ resolved # NoResponse /\ resolved.id >= 2
  /\ display.score = 100

(***************************************************************************)
(* Properties of the rows of the form, checked under SpecForm              *)
(***************************************************************************)
\* C16: after every step the project list and the activity list of the form
\* hold at least one row each; a step that adds or removes a row leaves the
\* first row of each list in place; and a record that is stored holds at
\* least one project and one activity
C16_AtLeastOneRow ==
  [][/\ Len(projectFields') >= 1
     /\ Len(activityFields') >= 1
     /\ lastOp' = "edit_rows" =>
          /\ projectFields'[1] = projectFields[1]
          /\ activityFields'[1] = activityFields[1]
     /\ lastOp' = "submit_ok" =>
          /\ Len(resumeData'.projects) >= 1
          /\ Len(resumeData'.activities) >= 1]_vars

\* rows were added to a list and the last step removed the last added row:
\* both lists are back at their first row alone
C16_Witness ==
  /\ route = "/form"
  /\ lastOp = "edit_rows"
  /\ projectFields = <<1>>
  /\ activityFields = <<1>>

(***************************************************************************)
(* Properties of the summary and the score over the life of one preview,   *)
(* checked under Spec                                                      *)
(***************************************************************************)
\* a step that stays in one mounted preview: the credential and the record are fixed
SamePreview ==
  /\ route = "/preview" /\ route' = "/preview"
  /\ display.shown /\ display'.shown

\* C17 as stated: within one preview a summary that is not empty never
\* becomes empty again, and the displayed score never decreases
C17_ScoreNeverDecreases ==
  [][SamePreview =>
       /\ aiSummary # "" => aiSummary' # ""
       /\ display'.score >= display.score]_vars

\* C17, amended: within one preview the summary is empty only while the
\* preview's first request is pending, a summary that is not empty never
\* becomes empty again, and the displayed score decreases only by a request
\* that succeeds with a text that holds the marker
C17_ScoreDecreasesOnlyByMarker ==
  [][/\ (route' = "/preview" /\ display'.shown /\ aiSummary' = "") =>
          (LiveCalls' # {} /\ loadingAi')
     /\ SamePreview =>
          /\ aiSummary # "" => aiSummary' # ""
          /\ lastOp' \in {"generate_nokey", "summary_ok", "summary_failed"} =>
               aiSummary' # ""
          /\ display'.score < display.score =>
               /\ resolved' # NoResponse
               /\ ~ resolved'.rejected
               /\ includes(resolved'.text, Marker)
               /\ display'.score = display.score - 20]_vars

\* the bonus was awarded, and a later request that failed has left it in place
C17_Witness ==
  /\ PreviewShown
  /\ resumeData = Jane(1, 1)
  /\ lastOp = "summary_failed"
  /\ resolved.id >= 2
  /\ summaryCalls = {}
  /\ display.score = 100

\* C18: the loading flag never sticks: it is set only in a rendered preview
\* that has a request of its own in flight, so in every state of the preview
\* with no request in flight it is false; and it is false after each of the
\* three exits of generateSummary (missing credential, success, failure)
C18_LoadingNeverSticks ==
  /\ loadingAi => (PreviewShown /\ LiveCalls # {})
  /\ (PreviewShown /\ summaryCalls = {}) => ~ loadingAi
  /\ lastOp \in {"generate_nokey", "summary_ok", "summary_failed"} => ~ loadingAi

\* two requests were issued in the preview and the second has just succeeded:
\* nothing is in flight and the flag is down
C18_Witness ==
  /\ PreviewShown
  /\ lastOp = "summary_ok"
  /\ resolved.id = 2
  /\ netCalls = 2
  /\ summaryCalls = {}
  /\ ~ loadingAi

====
